---------------------------- MODULE Spec2Model ----------------------------
(***************************************************************************)
(* A model of ascii-art.py: the AsciiArt record, the ArtDB collection, the *)
(* text-block parser load_txt_file, the database file format of            *)
(* write_db/open, the HTTP handler do_GET and the terminal browser.        *)
(*                                                                         *)
(* A Python str is a sequence of code points and a Python bytes object a   *)
(* sequence of byte values, both sequences of naturals.  Str("...") turns  *)
(* a literal into its code points.                                         *)
(***************************************************************************)
EXTENDS Integers, Sequences, FiniteSets, TLC

VARIABLES
    pc,           \* where the running command stands
    ascii_arts,   \* ArtDB.ascii_arts: the list of records
    b64,          \* ArtDB.b64: the storage mode flag
    call,         \* the ArtDB method called last and its arguments
    ret,          \* what that call returned or raised
    request,      \* do_GET: the request being handled (path, accept header)
    rnd_item,     \* do_GET: the index served
    response,     \* do_GET: what the client got
    trims,        \* load --trim: a record, its trim() and the trim() of that
    blocks,       \* the art blocks a text file was written from
    fh_lines,     \* load_txt_file: fh.readlines()
    line_no,      \* load_txt_file: how many of the lines the loop has taken
    lines,        \* load_txt_file: the lines accumulated for the current block
    arts,         \* load_txt_file: the payloads found so far
    dbfile,       \* the content of the database file
    written,      \* write_db: the records and the arguments of the last write
    c,            \* browser: the cursor, 1-based
    go,           \* browser: the command read last
    edited        \* browser: what the editor left in the temporary file

dbVars == <<ascii_arts, b64>>
callVars == <<call, ret>>
httpVars == <<request, rnd_item, response>>
trimVars == <<trims>>
parseVars == <<blocks, fh_lines, line_no, lines, arts>>
storeVars == <<dbfile, written>>
browseVars == <<c, go, edited>>

vars == <<pc, ascii_arts, b64, call, ret, request, rnd_item, response, trims,
          blocks, fh_lines, line_no, lines, arts, dbfile, written, c, go, edited>>

-----------------------------------------------------------------------------
(* Bounds of the model.                                                    *)

\* ArtDB indices are drawn from -MaxIndex .. MaxIndex
MaxIndex == 4

\* the served database holds at most MaxServed records
MaxServed == 3

\* GET /<n> is requested for n in -MaxPathInt .. MaxPathInt
MaxPathInt == 7

\* trim() is applied to every text of at most MaxText characters
MaxText == 4

\* a text file is written from at most MaxBlocks art blocks
MaxBlocks == 3

\* a free-form text file holds at most MaxLines lines
MaxLines == 3

-----------------------------------------------------------------------------
(* Text and bytes.                                                         *)

AsciiLow == " !\"#$%&'()*+,-./0123456789:;<=>?@ABCDEFGHIJKLMNOPQRSTUVWXYZ[\\]^_"
AsciiHigh == "abcdefghijklmnopqrstuvwxyz{|}~"

\* the code point of a one-character literal
Ord(ch) ==
    IF ch = "\n" THEN 10
    ELSE IF ch = "\t" THEN 9
    ELSE IF \E k \in 1..Len(AsciiLow) : SubSeq(AsciiLow, k, k) = ch
         THEN 31 + (CHOOSE k \in 1..Len(AsciiLow) : SubSeq(AsciiLow, k, k) = ch)
         ELSE 96 + (CHOOSE k \in 1..Len(AsciiHigh) : SubSeq(AsciiHigh, k, k) = ch)

\* the code points of a literal
Str(s) == [i \in 1..Len(s) |-> Ord(SubSeq(s, i, i))]

NL == 10
SPACE == 32

Min(S) == CHOOSE x \in S : \A y \in S : x <= y

\* the concatenation of a sequence of sequences (halving, to keep the
\* evaluation shallow on long texts)
RECURSIVE Concat(_)
Concat(ss) ==
    IF Len(ss) = 0 THEN <<>>
    ELSE IF Len(ss) = 1 THEN ss[1]
    ELSE LET h == Len(ss) \div 2
         IN  Concat(SubSeq(ss, 1, h)) \o Concat(SubSeq(ss, h + 1, Len(ss)))

\* sep.join(parts)
Join(sep, parts) ==
    Concat([i \in 1..Len(parts) |-> IF i = 1 THEN parts[i] ELSE sep \o parts[i]])

\* text.split(sep) for a one-character sep: the pieces between the separators
Split(text, sep) ==
    LET cuts == {i \in 1..Len(text) : text[i] = sep}
        n    == Cardinality(cuts)
        \* the position of the k-th separator; 0 before the first, Len+1 after the last
        cut(k) == IF k = 0 THEN 0
                  ELSE IF k > n THEN Len(text) + 1
                  ELSE CHOOSE i \in cuts : Cardinality({j \in cuts : j < i}) = k - 1
    IN  [k \in 1..(n + 1) |-> SubSeq(text, cut(k - 1) + 1, cut(k) - 1)]

\* list(seq.__reversed__())
Reversed(s) == [i \in 1..Len(s) |-> s[Len(s) + 1 - i]]

\* needle in text, for str
Contains(text, needle) ==
    \E i \in 1..(Len(text) - Len(needle) + 1) :
        SubSeq(text, i, i + Len(needle) - 1) = needle

\* str.rstrip(): trailing whitespace removed
IsSpace(ch) == ch \in {9, 10, 11, 12, 13, 28, 29, 30, 31, 32}
RStrip(text) ==
    LET keep == {i \in 1..Len(text) : ~IsSpace(text[i])}
    IN  IF keep = {} THEN <<>>
        ELSE SubSeq(text, 1, CHOOSE i \in keep : \A j \in keep : j <= i)

-----------------------------------------------------------------------------
(* UTF-8.                                                                  *)

\* the bytes of one code point
Utf8Char(cp) ==
    IF cp < 128 THEN <<cp>>
    ELSE IF cp < 2048 THEN <<192 + (cp \div 64), 128 + (cp % 64)>>
    ELSE IF cp < 65536
         THEN <<224 + (cp \div 4096), 128 + ((cp \div 64) % 64), 128 + (cp % 64)>>
    ELSE <<240 + (cp \div 262144), 128 + ((cp \div 4096) % 64),
           128 + ((cp \div 64) % 64), 128 + (cp % 64)>>

\* str.encode('utf-8')
Utf8Encode(text) ==
    IF \A i \in 1..Len(text) : text[i] < 128 THEN text
    ELSE Concat([i \in 1..Len(text) |-> Utf8Char(text[i])])

IsCont(b, i) == i <= Len(b) /\ b[i] >= 128 /\ b[i] < 192

\* the length of the well-formed UTF-8 sequence that starts at b[i], 0 if none
Utf8SeqLen(b, i) ==
    LET x == b[i]
    IN  IF x < 128 THEN 1
        ELSE IF x >= 194 /\ x <= 223 /\ IsCont(b, i + 1) THEN 2
        ELSE IF /\ x >= 224 /\ x <= 239
                /\ IsCont(b, i + 1) /\ IsCont(b, i + 2)
                /\ (x = 224 => b[i + 1] >= 160)
                /\ (x = 237 => b[i + 1] < 160)
             THEN 3
        ELSE IF /\ x >= 240 /\ x <= 244
                /\ IsCont(b, i + 1) /\ IsCont(b, i + 2) /\ IsCont(b, i + 3)
                /\ (x = 240 => b[i + 1] >= 144)
                /\ (x = 244 => b[i + 1] < 144)
             THEN 4
        ELSE 0

Utf8CodePoint(b, i, n) ==
    IF n = 1 THEN b[i]
    ELSE IF n = 2 THEN (b[i] - 192) * 64 + (b[i + 1] - 128)
    ELSE IF n = 3
         THEN (b[i] - 224) * 4096 + (b[i + 1] - 128) * 64 + (b[i + 2] - 128)
    ELSE (b[i] - 240) * 262144 + (b[i + 1] - 128) * 4096
         + (b[i + 2] - 128) * 64 + (b[i + 3] - 128)

\* bytes.decode('utf-8') from position i on: the ASCII run up to the next
\* byte >= 128 is copied, a multi-byte sequence is decoded or refused
RECURSIVE Utf8DecodeFrom(_, _)
Utf8DecodeFrom(b, i) ==
    LET high == {j \in i..Len(b) : b[j] >= 128}
    IN  IF high = {} THEN [ok |-> TRUE, text |-> SubSeq(b, i, Len(b))]
        ELSE LET j == Min(high)
                 n == Utf8SeqLen(b, j)
             IN  IF n = 0 THEN [ok |-> FALSE, text |-> <<>>]
                 ELSE LET rest == Utf8DecodeFrom(b, j + n)
                      IN  IF ~rest.ok THEN rest
                          ELSE [ok |-> TRUE,
                                text |-> SubSeq(b, i, j - 1)
                                         \o <<Utf8CodePoint(b, j, n)>>
                                         \o rest.text]

\* bytes.decode('utf-8'): ok is FALSE where Python raises UnicodeDecodeError
Utf8Decode(b) == Utf8DecodeFrom(b, 1)

-----------------------------------------------------------------------------
(* Base64.                                                                 *)

B64_ALPHABET == Str("ABCDEFGHIJKLMNOPQRSTUVWXYZabcdefghijklmnopqrstuvwxyz0123456789+/")
B64_PAD == 61

B64Val(ch) == (CHOOSE k \in 1..64 : B64_ALPHABET[k] = ch) - 1

\* base64.b64encode(b)
B64Encode(b) ==
    LET n == Len(b)
        byte(i) == IF i <= n THEN b[i] ELSE 0
        out(k) ==
            LET g  == (k - 1) \div 4
                r  == (k - 1) % 4
                b0 == byte(3 * g + 1)
                b1 == byte(3 * g + 2)
                b2 == byte(3 * g + 3)
            IN  IF r = 0 THEN B64_ALPHABET[(b0 \div 4) + 1]
                ELSE IF r = 1 THEN B64_ALPHABET[((b0 % 4) * 16) + (b1 \div 16) + 1]
                ELSE IF r = 2
                     THEN IF 3 * g + 2 > n THEN B64_PAD
                          ELSE B64_ALPHABET[((b1 % 16) * 4) + (b2 \div 64) + 1]
                ELSE IF 3 * g + 3 > n THEN B64_PAD
                     ELSE B64_ALPHABET[(b2 % 64) + 1]
    IN  [k \in 1..(4 * ((n + 2) \div 3)) |-> out(k)]

\* base64.b64decode(s, validate=True): ok is FALSE where Python raises
\* binascii.Error (a character outside the alphabet, leading, broken or
\* missing padding, data after the padding)
B64Decode(s) ==
    LET n     == Len(s)
        pads  == {i \in 1..n : s[i] = B64_PAD}
        first == IF pads = {} THEN n + 1 ELSE Min(pads)
        q     == first - 1
        m     == n - q
        valid ==
            /\ \A i \in 1..n : s[i] = B64_PAD \/ \E k \in 1..64 : B64_ALPHABET[k] = s[i]
            /\ \A i \in first..n : s[i] = B64_PAD
            /\ ~(n > 0 /\ first = 1)
            /\ q % 4 # 1
            /\ (q % 4 = 2 => m = 2)
            /\ (q % 4 = 3 => m = 1)
        v(i)  == B64Val(s[i])
        byte(k) ==
            LET g == (k - 1) \div 3
                r == (k - 1) % 3
            IN  IF r = 0 THEN (v(4 * g + 1) * 4) + (v(4 * g + 2) \div 16)
                ELSE IF r = 1 THEN ((v(4 * g + 2) % 16) * 16) + (v(4 * g + 3) \div 4)
                ELSE ((v(4 * g + 3) % 4) * 64) + v(4 * g + 4)
    IN  IF valid THEN [ok |-> TRUE, bytes |-> [k \in 1..((q * 6) \div 8) |-> byte(k)]]
        ELSE [ok |-> FALSE, bytes |-> <<>>]

-----------------------------------------------------------------------------
(* AsciiArt.                                                               *)

\* hashlib.sha1(data).hexdigest(): a digest that differs for different data
SHA1_TAG == Str("sha1:")
Sha1Hex(data) == SHA1_TAG \o data

\* AsciiArt(b)
AsciiArt_init(b) ==
    LET data == B64Encode(b)
    IN  [data |-> data, md5 |-> Sha1Hex(data)]

\* AsciiArtJsonDecoder.from_dict: data and md5 are taken as given
AsciiArt_from_dict(data, md5) == [data |-> data, md5 |-> md5]

\* AsciiArt.__eq__
AsciiArt_eq(a, other) == a.md5 = other.md5

\* AsciiArt.__str__: ok is FALSE where the decoding raises
AsciiArt_str(a) ==
    LET raw == B64Decode(a.data)
    IN  IF ~raw.ok THEN [ok |-> FALSE, text |-> <<>>] ELSE Utf8Decode(raw.bytes)

EmptyLineMatchNever(line) == FALSE

\* empty_line.match(line) for empty_line = re.compile('^( *)$')
EmptyLineMatch(line) == \A i \in 1..Len(line) : line[i] = SPACE

\* trimmer(text): the leading lines that match empty_line are dropped
Trimmer(text) ==
    LET split == Split(text, NL)
        kept  == {i \in 1..Len(split) : ~EmptyLineMatch(split[i])}
    IN  IF kept = {} THEN <<>>
        ELSE Join(<<NL>>, SubSeq(split, Min(kept), Len(split)))

\* AsciiArt.trim, for a record whose data decodes
AsciiArt_trim(a) ==
    LET my_str  == AsciiArt_str(a).text
        my_str1 == Trimmer(my_str)
        my_str2 == Trimmer(Join(<<NL>>, Reversed(Split(my_str1, NL))))
        my_str3 == Join(<<NL>>, Reversed(Split(my_str2, NL)))
    IN  AsciiArt_init(Utf8Encode(my_str3))

-----------------------------------------------------------------------------
(* ArtDB: the methods as functions of the list.                            *)

\* art_object in self.ascii_arts
ArtDB_contains(db, art) == \E i \in 1..Len(db) : AsciiArt_eq(db[i], art)

\* list.insert(index, x): a negative index counts from the end, and the
\* position is clamped to 0 .. len
ListInsert(db, index, x) ==
    LET n == Len(db)
        p == IF index < 0 THEN (IF index + n < 0 THEN 0 ELSE index + n)
             ELSE IF index > n THEN n ELSE index
    IN  SubSeq(db, 1, p) \o <<x>> \o SubSeq(db, p + 1, n)

ArtDB_add_nocheck(db, art) == Append(db, art)

\* ArtDB.add
ArtDB_add(db, art) ==
    IF ~ArtDB_contains(db, art) THEN Append(db, art) ELSE db

\* ArtDB.insert
ArtDB_insert(db, index, art) ==
    IF ~ArtDB_contains(db, art) THEN ListInsert(db, index, art) ELSE db

\* ArtDB.len
ArtDB_len(db) == Len(db)

ArtDB_get_strict(db, id) ==
    IF id >= 0 /\ id < Len(db) THEN [ok |-> TRUE, art |-> db[id + 1]]
    ELSE [ok |-> FALSE, art |-> <<>>]

\* ArtDB.get: self.ascii_arts[id]; ok is FALSE where Python raises IndexError
ArtDB_get(db, id) ==
    IF id >= 0 /\ id < Len(db) THEN [ok |-> TRUE, art |-> db[id + 1]]
    ELSE IF id < 0 /\ id + Len(db) >= 0
         THEN [ok |-> TRUE, art |-> db[id + Len(db) + 1]]
    ELSE [ok |-> FALSE, art |-> <<>>]

\* ArtDB.remove: the first record equal to item goes; ok is FALSE where
\* Python raises ValueError
ArtDB_remove(db, item) ==
    LET hits == {i \in 1..Len(db) : AsciiArt_eq(db[i], item)}
    IN  IF hits = {} THEN [ok |-> FALSE, db |-> db]
        ELSE [ok |-> TRUE,
              db |-> SubSeq(db, 1, Min(hits) - 1)
                       \o SubSeq(db, Min(hits) + 1, Len(db))]

-----------------------------------------------------------------------------
(* load_txt_file.                                                          *)

TEXT_WRAP_WITH == 80
B64_DATA_HEADER == Str("----------------------BEGIN OF ASCIIART OBJECT----------------------------------")
B64_DATA_FOOTER == Str("-----------------------END OF ASCIIART OBJECT-----------------------------------")
ART_SEPERATOR == Str("----------------------------ASCII ART ITEM--------------------------")

\* fh.readlines(): the lines of the text, each with its newline, the last
\* one without when the text does not end in a newline
ReadLines(text) ==
    LET split == Split(text, NL)
        n     == Len(split)
        count == IF split[n] = <<>> THEN n - 1 ELSE n
    IN  [k \in 1..count |-> IF k < n THEN split[k] \o <<NL>> ELSE split[k]]

\* text.replace('\n', '')
WithoutNewlines(text) == Concat(Split(text, NL))

SeparatorIs(line) == line = ART_SEPERATOR \/ line = ART_SEPERATOR \o <<NL>>

\* ART_SEPERATOR in line
SeparatorIn(line) == Contains(line, ART_SEPERATOR)

\* the payload of the accumulated lines: the bytes they decode to when,
\* newlines removed, they are valid base64, and the lines themselves
\* otherwise; ok is FALSE where the decoded bytes are not UTF-8 and
\* .decode('utf-8') raises UnicodeDecodeError, which nothing catches
Payload(buffer) ==
    LET raw == B64Decode(Utf8Encode(WithoutNewlines(buffer)))
    IN  IF ~raw.ok THEN [ok |-> TRUE, bytes |-> Utf8Encode(buffer)]
        ELSE IF ~Utf8Decode(raw.bytes).ok THEN [ok |-> FALSE, bytes |-> <<>>]
        ELSE [ok |-> TRUE, bytes |-> Utf8Encode(Utf8Decode(raw.bytes).text)]

LoadLine_noreset(st, line) ==
    IF ~SeparatorIn(line) THEN [st EXCEPT !.lines = st.lines \o line]
    ELSE IF st.lines # <<>> /\ Payload(st.lines).ok
         THEN [st EXCEPT !.arts = Append(st.arts, Payload(st.lines).bytes)]
    ELSE st

\* one turn of `for line in fh.readlines()` on the state st = [lines, arts,
\* raised]
LoadLine(st, line) ==
    IF ~SeparatorIn(line) THEN [st EXCEPT !.lines = st.lines \o line]
    ELSE IF st.lines # <<>>
         THEN IF Payload(st.lines).ok
              THEN [st EXCEPT !.arts = Append(st.arts, Payload(st.lines).bytes),
                              !.lines = <<>>]
              ELSE [st EXCEPT !.raised = TRUE]
    ELSE st

\* what follows the loop: the lines left over make the last payload
LoadRest(st) ==
    IF st.lines # <<>>
    THEN IF Payload(st.lines).ok
         THEN [st EXCEPT !.arts = Append(st.arts, Payload(st.lines).bytes),
                         !.lines = Utf8Decode(Payload(st.lines).bytes).text]
         ELSE [st EXCEPT !.raised = TRUE]
    ELSE st

RECURSIVE LoadLines(_, _, _)
LoadLines(st, readlines, k) ==
    IF st.raised \/ k > Len(readlines) THEN st
    ELSE LoadLines(LoadLine(st, readlines[k]), readlines, k + 1)

\* load_txt_file(filename) for a file of the given text: ok is FALSE where
\* it raises, and arts are the payloads otherwise
load_txt_file(text) ==
    LET looped == LoadLines([lines |-> <<>>, arts |-> <<>>, raised |-> FALSE],
                            ReadLines(text), 1)
        final  == IF looped.raised THEN looped ELSE LoadRest(looped)
    IN  [ok |-> ~final.raised, arts |-> IF final.raised THEN <<>> ELSE final.arts]

-----------------------------------------------------------------------------
(* JSON, as json.dumps writes a list of AsciiArt and json.loads reads it.  *)

HEX == Str("0123456789abcdef")
QUOTE == 34
BACKSLASH == 92

\* '\\u{0:04x}'.format(n)
EscapeU(n) ==
    <<BACKSLASH, 117, HEX[(n \div 4096) + 1], HEX[((n \div 256) % 16) + 1],
      HEX[((n \div 16) % 16) + 1], HEX[(n % 16) + 1]>>

\* one character of a JSON string under ensure_ascii
JsonEscape(cp) ==
    IF cp = QUOTE THEN <<BACKSLASH, QUOTE>>
    ELSE IF cp = BACKSLASH THEN <<BACKSLASH, BACKSLASH>>
    ELSE IF cp = 10 THEN <<BACKSLASH, 110>>
    ELSE IF cp = 13 THEN <<BACKSLASH, 114>>
    ELSE IF cp = 9 THEN <<BACKSLASH, 116>>
    ELSE IF cp = 8 THEN <<BACKSLASH, 98>>
    ELSE IF cp = 12 THEN <<BACKSLASH, 102>>
    ELSE IF cp >= 32 /\ cp <= 126 THEN <<cp>>
    ELSE IF cp < 65536 THEN EscapeU(cp)
    ELSE EscapeU(55296 + ((cp - 65536) \div 1024)) \o EscapeU(56320 + ((cp - 65536) % 1024))

\* json.dumps of a str
JsonString(text) ==
    <<QUOTE>> \o Concat([i \in 1..Len(text) |-> JsonEscape(text[i])]) \o <<QUOTE>>

JSON_CLASS == Str("\"__class__\": \"AsciiArt\"")
JSON_DATA == Str("\"data\": ")
JSON_MD5 == Str("\"md5\": ")
INDENT_1 == Str("\n    ")
INDENT_2 == Str("\n        ")
COMMA == Str(",")

\* AsciiArt.__repr__ through AsciiArtJsonEncoder.default, as json.dumps
\* writes it at indent=4 inside a list
JsonOfArt(a) ==
    Str("{") \o INDENT_2 \o JSON_CLASS \o COMMA
    \o INDENT_2 \o JSON_DATA \o JsonString(Utf8Decode(a.data).text) \o COMMA
    \o INDENT_2 \o JSON_MD5 \o JsonString(a.md5)
    \o INDENT_1 \o Str("}")

\* json.dumps(self.ascii_arts, cls=AsciiArtJsonEncoder, indent=4)
JsonDumps(db) ==
    IF Len(db) = 0 THEN Str("[]")
    ELSE Str("[") \o INDENT_1
         \o Join(COMMA \o INDENT_1, [i \in 1..Len(db) |-> JsonOfArt(db[i])])
         \o Str("\n]")

IsJsonWs(ch) == ch \in {32, 10, 13, 9}

\* the first position from i on that holds no JSON whitespace
SkipWs(t, i) ==
    LET at == {j \in i..Len(t) : ~IsJsonWs(t[j])}
    IN  IF at = {} THEN Len(t) + 1 ELSE Min(at)

HexVal(ch) ==
    IF ch >= 48 /\ ch <= 57 THEN ch - 48
    ELSE IF ch >= 97 /\ ch <= 102 THEN ch - 87
    ELSE IF ch >= 65 /\ ch <= 70 THEN ch - 55
    ELSE 0 - 1

\* the value of the four hex digits at t[i..i+3], -1 if they are not
Hex4(t, i) ==
    IF i + 3 > Len(t) \/ \E k \in 0..3 : HexVal(t[i + k]) < 0 THEN 0 - 1
    ELSE HexVal(t[i]) * 4096 + HexVal(t[i + 1]) * 256 + HexVal(t[i + 2]) * 16
         + HexVal(t[i + 3])

JsonFail == [ok |-> FALSE, value |-> <<>>, next |-> 0]

\* a local variable: v is computed once and F goes on with its value
Then(v, F(_)) == CHOOSE r \in {F(x) : x \in {v}} : TRUE

\* the rest of a JSON string from position i on (the opening quote is
\* behind): plain characters up to the next quote or backslash are copied,
\* an escape is decoded
RECURSIVE JsonStringTail(_, _)
JsonStringTail(t, i) ==
    LET stops == {k \in i..Len(t) : t[k] = QUOTE \/ t[k] = BACKSLASH \/ t[k] < 32}
    IN  IF stops = {} THEN JsonFail
        ELSE Then(Min(stops), LAMBDA j :
             LET plain == SubSeq(t, i, j - 1)
             IN  IF t[j] = QUOTE THEN [ok |-> TRUE, value |-> plain, next |-> j + 1]
                 ELSE IF t[j] < 32 \/ j + 1 > Len(t) THEN JsonFail
                 ELSE LET e == t[j + 1]
                          simple == IF e = QUOTE THEN QUOTE
                                    ELSE IF e = BACKSLASH THEN BACKSLASH
                                    ELSE IF e = 47 THEN 47
                                    ELSE IF e = 98 THEN 8
                                    ELSE IF e = 102 THEN 12
                                    ELSE IF e = 110 THEN 10
                                    ELSE IF e = 114 THEN 13
                                    ELSE IF e = 116 THEN 9
                                    ELSE 0 - 1
                          u1 == Hex4(t, j + 2)
                          paired == /\ u1 >= 55296 /\ u1 <= 56319
                                    /\ j + 7 <= Len(t)
                                    /\ t[j + 6] = BACKSLASH /\ t[j + 7] = 117
                                    /\ Hex4(t, j + 8) >= 56320 /\ Hex4(t, j + 8) <= 57343
                          cp == IF simple >= 0 THEN simple
                                ELSE IF paired
                                     THEN 65536 + (u1 - 55296) * 1024 + (Hex4(t, j + 8) - 56320)
                                ELSE u1
                          used == IF simple >= 0 THEN 2 ELSE IF paired THEN 12 ELSE 6
                      IN  IF simple < 0 /\ (e # 117 \/ u1 < 0) THEN JsonFail
                          ELSE Then(JsonStringTail(t, j + used),
                                    LAMBDA rest :
                                        IF ~rest.ok THEN JsonFail
                                        ELSE [ok |-> TRUE,
                                              value |-> plain \o <<cp>> \o rest.value,
                                              next |-> rest.next]))

\* dict.get(key) on the members read so far: the last one of that name
Member(members, key) ==
    LET at == {k \in 1..Len(members) : members[k][1] = key}
    IN  IF at = {} THEN [given |-> FALSE, value |-> <<>>]
        ELSE [given |-> TRUE, value |-> members[CHOOSE k \in at : \A m \in at : m <= k][2]]

KEY_CLASS == Str("__class__")
KEY_DATA == Str("data")
KEY_MD5 == Str("md5")
CLASS_NAME == Str("AsciiArt")

\* a JSON object whose members are strings, from the position after its
\* '{' on: the members, in order
RECURSIVE JsonMembers(_, _, _)
JsonMembers(t, i, members) ==
    Then(SkipWs(t, i), LAMBDA k :
    IF k > Len(t) \/ t[k] # QUOTE THEN JsonFail
    ELSE Then(JsonStringTail(t, k + 1), LAMBDA key :
    IF ~key.ok THEN JsonFail
    ELSE Then(SkipWs(t, key.next), LAMBDA colon :
    IF colon > Len(t) \/ t[colon] # 58 THEN JsonFail
    ELSE Then(SkipWs(t, colon + 1), LAMBDA v :
    IF v > Len(t) \/ t[v] # QUOTE THEN JsonFail
    ELSE Then(JsonStringTail(t, v + 1), LAMBDA val :
    IF ~val.ok THEN JsonFail
    ELSE Then(SkipWs(t, val.next), LAMBDA after :
    IF after > Len(t) THEN JsonFail
    ELSE IF t[after] = 125
         THEN [ok |-> TRUE,
               value |-> Append(members, <<key.value, val.value>>),
               next |-> after + 1]
    ELSE IF t[after] = 44
         THEN JsonMembers(t, after + 1, Append(members, <<key.value, val.value>>))
    ELSE JsonFail))))))

\* AsciiArtJsonDecoder.from_dict on the members of an object: the record,
\* its data encoded to bytes by the data setter; ok is FALSE where the
\* object is no AsciiArt or lacks a key
FromDict(d) ==
    Then(d, LAMBDA members :
    IF /\ Member(members, KEY_CLASS) = [given |-> TRUE, value |-> CLASS_NAME]
       /\ Member(members, KEY_DATA).given
       /\ Member(members, KEY_MD5).given
    THEN [ok |-> TRUE,
          art |-> AsciiArt_from_dict(Utf8Encode(Member(members, KEY_DATA).value),
                                     Member(members, KEY_MD5).value)]
    ELSE [ok |-> FALSE, art |-> <<>>])

\* the elements of a JSON array of AsciiArt objects, from position i on
RECURSIVE JsonElements(_, _, _)
JsonElements(t, i, db) ==
    Then(SkipWs(t, i), LAMBDA k :
    IF k > Len(t) \/ t[k] # 123 THEN JsonFail
    ELSE Then(SkipWs(t, k + 1), LAMBDA first :
         Then(IF first <= Len(t) /\ t[first] = 125
              THEN [ok |-> TRUE, value |-> <<>>, next |-> first + 1]
              ELSE JsonMembers(t, k + 1, <<>>), LAMBDA obj :
    IF ~obj.ok THEN JsonFail
    ELSE Then(FromDict(obj.value), LAMBDA made :
         Then(SkipWs(t, obj.next), LAMBDA after :
    IF ~made.ok \/ after > Len(t) THEN JsonFail
    ELSE IF t[after] = 93
         THEN [ok |-> TRUE, value |-> Append(db, made.art), next |-> after + 1]
    ELSE IF t[after] = 44 THEN JsonElements(t, after + 1, Append(db, made.art))
    ELSE JsonFail)))))

\* json.loads(text, cls=AsciiArtJsonDecoder) for a document that is a list
\* of AsciiArt objects: the records; ok is FALSE for any other text
JsonLoads(text) ==
    Then(text, LAMBDA t :
    Then(SkipWs(t, 1), LAMBDA k :
    Then(IF k <= Len(t) /\ t[k] = 91
         THEN IF SkipWs(t, k + 1) <= Len(t) /\ t[SkipWs(t, k + 1)] = 93
              THEN [ok |-> TRUE, value |-> <<>>, next |-> SkipWs(t, k + 1) + 1]
              ELSE JsonElements(t, k + 1, <<>>)
         ELSE JsonFail, LAMBDA body :
    IF body.ok /\ SkipWs(t, body.next) > Len(t)
    THEN [ok |-> TRUE, db |-> body.value]
    ELSE [ok |-> FALSE, db |-> <<>>])))

-----------------------------------------------------------------------------
(* ArtDB.write_db and ArtDB.open.                                          *)

\* textwrap.wrap(text, width=width) for a text without whitespace or
\* hyphens, as base64 text is: pieces of width characters
TextWrap(text, width) ==
    [k \in 1..((Len(text) + width - 1) \div width) |->
        SubSeq(text, (k - 1) * width + 1,
               IF k * width < Len(text) THEN k * width ELSE Len(text))]

\* ArtDB.write_db: what is written to dbfile
ArtDB_write_db(db, self_b64, b64_arg, text_wrap) ==
    Then(JsonDumps(db), LAMBDA json_string :
    IF b64_arg \/ self_b64
    THEN Then(B64Encode(Utf8Encode(json_string)), LAMBDA encoded :
         IF text_wrap
         THEN B64_DATA_HEADER \o <<NL>>
              \o Join(<<NL>>, TextWrap(encoded, TEXT_WRAP_WITH))
              \o <<NL>> \o B64_DATA_FOOTER
         ELSE encoded)
    ELSE json_string)

\* what ArtDB.open reads json.loads on, after the header and footer lines
\* are dropped
OpenedText(file, dropped_last) ==
    Then(ReadLines(file), LAMBDA json_string :
    IF RStrip(json_string[1]) = B64_DATA_HEADER
    THEN Concat([k \in 1..(Len(json_string) - 1 - dropped_last) |->
                    RStrip(json_string[k + 1])])
    ELSE Concat(json_string))

\* ArtDB.open on a file of the given text, from self.b64 = FALSE: ok is
\* FALSE where it raises (an empty file, non-ASCII text, a document
\* json.loads refuses)
OpenWith(file, dropped_last) ==
    IF ReadLines(file) = <<>> THEN [ok |-> FALSE, db |-> <<>>, b64 |-> FALSE]
    ELSE Then(OpenedText(file, dropped_last), LAMBDA text :
         IF \E k \in 1..Len(text) : text[k] >= 128
         THEN [ok |-> FALSE, db |-> <<>>, b64 |-> FALSE]
         ELSE Then(B64Decode(text), LAMBDA raw :
              Then(IF raw.ok THEN Utf8Decode(raw.bytes)
                   ELSE [ok |-> TRUE, text |-> text], LAMBDA json_string :
              Then(IF json_string.ok THEN JsonLoads(json_string.text)
                   ELSE [ok |-> FALSE, db |-> <<>>], LAMBDA loaded :
              [ok |-> loaded.ok, db |-> loaded.db, b64 |-> raw.ok]))))

ArtDB_open_keepfooter(file) == OpenWith(file, 0)

\* ArtDB.open
ArtDB_open(file) == OpenWith(file, 1)

-----------------------------------------------------------------------------
(* browser.                                                                *)

\* str.lower() on ASCII letters
Lower(text) ==
    [i \in 1..Len(text) |->
        IF text[i] >= 65 /\ text[i] <= 90 THEN text[i] + 32 ELSE text[i]]

GO_NEXT == {Str("n"), Str("Next"), <<>>}
GO_PREVIOUS == {Str("p"), Str("previous")}
GO_DELETE == {Str("d"), Str("delete")}
GO_EDIT == {Str("e"), Str("edit")}
GO_QUIT == {Str("q"), Str("quit"), Str("exit")}
SAVE_YES == {Str("y"), Str("yes")}
SAVE_NO == {Str("n"), Str("no")}

Normalise_nowrap(cc, len) ==
    IF cc > len THEN [c |-> 1, brk |-> FALSE]
    ELSE IF cc < 0 THEN [c |-> cc, brk |-> TRUE]
    ELSE [c |-> cc, brk |-> FALSE]

\* what follows a command: `if c > db.len(): c = 1 / elif c == 0:
\* c = db.len() / elif c < 0: break`
Normalise(cc, len) ==
    IF cc > len THEN [c |-> 1, brk |-> FALSE]
    ELSE IF cc = 0 THEN [c |-> len, brk |-> FALSE]
    ELSE IF cc < 0 THEN [c |-> cc, brk |-> TRUE]
    ELSE [c |-> cc, brk |-> FALSE]

\* print(db.get(c-1)) goes through: the index is in range and the record's
\* data decodes
Displays(db, cc) ==
    /\ ArtDB_get(db, cc - 1).ok
    /\ AsciiArt_str(ArtDB_get(db, cc - 1).art).ok

\* where the loop is after `while c <= db.len()` is tested and, inside it,
\* the record is printed
WhileTest(db, cc) ==
    IF ~(cc <= ArtDB_len(db)) THEN "done"
    ELSE IF Displays(db, cc) THEN "prompt"
    ELSE "raised"

\* `for art in arts: db.insert(c-1, AsciiArt(art))` from the k-th payload on
RECURSIVE InsertAll(_, _, _, _)
InsertAll(db, cc, payloads, k) ==
    IF k > Len(payloads) THEN db
    ELSE InsertAll(ArtDB_insert(db, cc - 1, AsciiArt_init(payloads[k])), cc, payloads, k + 1)

EditedDb_append(db, cc, payloads) ==
    InsertAll(ArtDB_remove(db, ArtDB_get(db, cc - 1).art).db, Len(db) + 1, payloads, 1)

\* the edit command once the edited file is read: db.remove(old), then the
\* inserts
EditedDb(db, cc, payloads) ==
    InsertAll(ArtDB_remove(db, ArtDB_get(db, cc - 1).art).db, cc, payloads, 1)

-----------------------------------------------------------------------------
(* The records the collection specification draws from: three built from   *)
(* bytes, and two read from a database file, one sharing the identity of   *)
(* another record with different content and one the content of another    *)
(* record with a different identity.                                       *)

ArtAAA == AsciiArt_init(Utf8Encode(Str("AAA")))
ArtBBB == AsciiArt_init(Utf8Encode(Str("BBB")))
ArtCCC == AsciiArt_init(Utf8Encode(Str("CCC")))
ArtDDD_asAAA == AsciiArt_from_dict(B64Encode(Utf8Encode(Str("DDD"))), ArtAAA.md5)
ArtBBB_other == AsciiArt_from_dict(ArtBBB.data, Str("0123abcd"))

Records == {ArtAAA, ArtBBB, ArtCCC, ArtDDD_asAAA, ArtBBB_other}

Indices == (0 - MaxIndex)..MaxIndex

None == [kind |-> "None"]

\* rnd_item before an index is chosen
NoItem == 0 - 1

-----------------------------------------------------------------------------
(* What the variables of the other commands hold while one command runs.   *)

IdleCall == call = [op |-> "init"] /\ ret = None
IdleHttp == request = None /\ rnd_item = NoItem /\ response = None
IdleTrim == trims = <<>>
IdleParse == blocks = <<>> /\ fh_lines = <<>> /\ line_no = 0 /\ lines = <<>> /\ arts = <<>>
IdleStore == dbfile = <<>> /\ written = None
IdleBrowse == c = 1 /\ go = <<>> /\ edited = <<>>

-----------------------------------------------------------------------------
(* The collection: Add, Insert and Get on a collection that starts empty.  *)

DbInit ==
    /\ ascii_arts = <<>>
    /\ b64 = FALSE
    /\ pc = "db"
    /\ IdleCall /\ IdleHttp /\ IdleTrim /\ IdleParse /\ IdleStore /\ IdleBrowse

Add(art) ==
    /\ ascii_arts' = ArtDB_add(ascii_arts, art)
    /\ call' = [op |-> "add", art |-> art]
    /\ ret' = None
    /\ UNCHANGED <<b64, pc, httpVars, trimVars, parseVars, storeVars, browseVars>>

Insert(index, art) ==
    /\ ascii_arts' = ArtDB_insert(ascii_arts, index, art)
    /\ call' = [op |-> "insert", index |-> index, art |-> art]
    /\ ret' = None
    /\ UNCHANGED <<b64, pc, httpVars, trimVars, parseVars, storeVars, browseVars>>

Get(index) ==
    /\ call' = [op |-> "get", index |-> index]
    /\ ret' = LET r == ArtDB_get(ascii_arts, index)
              IN  IF r.ok THEN [kind |-> "value", art |-> r.art]
                  ELSE [kind |-> "IndexError"]
    /\ UNCHANGED <<dbVars, pc, httpVars, trimVars, parseVars, storeVars, browseVars>>

DbNext ==
    \/ \E art \in Records : Add(art)
    \/ \E index \in Indices, art \in Records : Insert(index, art)
    \/ \E index \in Indices : Get(index)

SpecDb == DbInit /\ [][DbNext]_vars

\* C1: starting from the empty collection, after any sequence of Add and
\* Insert calls no two positions of the collection hold records with the
\* same identity.
C1_NoSharedIdentity ==
    \A i, j \in 1..Len(ascii_arts) :
        i # j => ascii_arts[i].md5 # ascii_arts[j].md5

\* an Add or Insert of a record whose identity the collection already holds
\* under other content has been made, and the collection holds two records
C1_Witness ==
    /\ call.op \in {"add", "insert"}
    /\ Len(ascii_arts) >= 2
    /\ \E i \in 1..Len(ascii_arts) :
           ascii_arts[i].md5 = call.art.md5 /\ ascii_arts[i].data # call.art.data

\* C4 as claimed: Get(index) returns the record at position index when
\* 0 <= index < Length() and fails with an index error for every other
\* integer, negative ones included, leaving the collection unchanged.
C4_AsClaimed ==
    [][call'.op = "get" =>
        LET index == call'.index
        IN  /\ ascii_arts' = ascii_arts
            /\ IF 0 <= index /\ index < Len(ascii_arts)
               THEN ret' = [kind |-> "value", art |-> ascii_arts[index + 1]]
               ELSE ret' = [kind |-> "IndexError"]]_vars

\* C4: Get(index) returns the record at position index when
\* 0 <= index < Length(), the record at position Length() + index when
\* -Length() <= index < 0, and fails with an index error for every other
\* integer; the collection is unchanged in every case.
C4_GetByIndex ==
    [][call'.op = "get" =>
        LET index == call'.index
            n     == Len(ascii_arts)
        IN  /\ ascii_arts' = ascii_arts
            /\ IF 0 <= index /\ index < n
               THEN ret' = [kind |-> "value", art |-> ascii_arts[index + 1]]
               ELSE IF 0 - n <= index /\ index < 0
               THEN ret' = [kind |-> "value", art |-> ascii_arts[n + index + 1]]
               ELSE ret' = [kind |-> "IndexError"]]_vars

\* Get was called with a negative index on a collection of two or more
\* records and returned one that is not the first
C4_Witness ==
    /\ call.op = "get"
    /\ call.index < 0
    /\ Len(ascii_arts) >= 2
    /\ ret.kind = "value"
    /\ ret.art # ascii_arts[1]

-----------------------------------------------------------------------------
(* The HTTP server: do_GET on a database loaded by ArtDB.open.             *)

DIGITS == Str("0123456789")
MINUS == Str("-")

\* '%s' % n and str.format of an int: the decimal digits
RECURSIVE NatStr(_)
NatStr(n) == IF n < 10 THEN <<DIGITS[n + 1]>> ELSE NatStr(n \div 10) \o <<DIGITS[(n % 10) + 1]>>
IntStr(n) == IF n < 0 THEN MINUS \o NatStr(0 - n) ELSE NatStr(n)

\* str.strip(): whitespace removed at both ends
Strip(text) ==
    LET keep == {i \in 1..Len(text) : ~IsSpace(text[i])}
    IN  IF keep = {} THEN <<>> ELSE SubSeq(RStrip(text), Min(keep), Len(RStrip(text)))

IsDigit(ch) == \E k \in 1..10 : DIGITS[k] = ch
DigitVal(ch) == (CHOOSE k \in 1..10 : DIGITS[k] = ch) - 1

RECURSIVE DigitsValue(_)
DigitsValue(ds) ==
    IF Len(ds) = 0 THEN 0
    ELSE DigitsValue(SubSeq(ds, 1, Len(ds) - 1)) * 10 + DigitVal(ds[Len(ds)])

\* int(text): surrounding whitespace, a sign, decimal digits with single
\* underscores between them; ok is FALSE where Python raises ValueError
ParseInt(text) ==
    LET t      == Strip(text)
        signed == Len(t) > 0 /\ t[1] \in {43, 45}
        body   == IF signed THEN SubSeq(t, 2, Len(t)) ELSE t
        n      == Len(body)
        wellformed ==
            /\ n > 0
            /\ \A i \in 1..n : IsDigit(body[i]) \/ body[i] = 95
            /\ body[1] # 95 /\ body[n] # 95
            /\ \A i \in 1..(n - 1) : ~(body[i] = 95 /\ body[i + 1] = 95)
        digits == LET at == {i \in 1..n : body[i] # 95}
                      nth(k) == CHOOSE i \in at : Cardinality({j \in at : j < i}) = k - 1
                  IN  [k \in 1..Cardinality(at) |-> body[nth(k)]]
    IN  IF ~wellformed THEN [ok |-> FALSE, value |-> 0]
        ELSE [ok |-> TRUE,
              value |-> IF signed /\ t[1] = 45 THEN 0 - DigitsValue(digits)
                        ELSE DigitsValue(digits)]

\* os.path.basename(path): what follows the last '/'
Basename(path) ==
    LET slashes == {i \in 1..Len(path) : path[i] = 47}
    IN  IF slashes = {} THEN path
        ELSE SubSeq(path, (CHOOSE i \in slashes : \A j \in slashes : j <= i) + 1, Len(path))

\* random.randrange(start, stop): the values it can return; none where
\* Python raises ValueError (an empty range)
RandRange(start, stop) == start..(stop - 1)

HTML_FORMAT_1 ==
    Str("<html><head></head><body style='color:#000;background-color:#FFF;'>")
    \o Str("<div style='position:float;align:center;margin:auto;'>")
    \o Str("<pre style='font-family:courier;font-size:12pt;'>")
HTML_FORMAT_2 ==
    Str("</pre></div><div style='margin-top:50px;margin-left:30px;'><a href='")
HTML_FORMAT_3 == Str("' style='color:#AAA;'>")
HTML_FORMAT_4 == Str("</a></body></html>")

\* HTML_FORMAT.format(art=art, id=id, link=link)
HTML_FORMAT(art, id, link) ==
    HTML_FORMAT_1 \o art \o HTML_FORMAT_2 \o id \o HTML_FORMAT_3 \o link \o HTML_FORMAT_4

SLASH == Str("/")
TEXT_HTML == Str("text/html")
CONTENT_TYPE_HTML == Str("text/html; charset=utf-8")
CONTENT_TYPE_PLAIN == Str("text/plain; charset=utf-8")
LINK == Str("link")

\* 'text/html' in self.headers.get('accept').split(',')
WantsHtml(accept) ==
    /\ accept.given
    /\ \E k \in 1..Len(Split(accept.value, 44)) : Split(accept.value, 44)[k] = TEXT_HTML

\* do_GET from `if self.path != '/'` on, with the random draw rnd made
DoGetWith(db, req, rnd) ==
    LET html == WantsHtml(req.accept)
        id   == ParseInt(Basename(req.path))
        item == IF req.path # SLASH /\ id.ok THEN id.value % ArtDB_len(db) ELSE rnd
        ctype == IF html THEN CONTENT_TYPE_HTML ELSE CONTENT_TYPE_PLAIN
        d    == ArtDB_get(db, item)
        text == AsciiArt_str(d.art)
    IN  [rnd_item |-> item,
         response |->
            IF ~d.ok THEN [status |-> 200, content_type |-> ctype, body |-> <<>>,
                           raised |-> "IndexError"]
            ELSE IF ~text.ok THEN [status |-> 200, content_type |-> ctype, body |-> <<>>,
                                   raised |-> "UnicodeDecodeError"]
            ELSE [status |-> 200, content_type |-> ctype,
                  body |-> Utf8Encode(IF html THEN HTML_FORMAT(text.text, IntStr(item), LINK)
                                      ELSE text.text),
                  raised |-> "no"]]

\* what a request leaves behind when do_GET raises before send_response
NoResponse(exception) ==
    [status |-> 0, content_type |-> <<>>, body |-> <<>>, raised |-> exception]

\* the records of the served database
ServedRecords ==
    {AsciiArt_init(Utf8Encode(Str(t))) : t \in {"AAA", "BBB\n", " /\\\n/__\\", "DDD"}}

\* the databases ArtDB.open can have loaded from a file that `load` wrote
\* (lists of at most n records of S that ArtDB.add builds: no identity twice)
RECURSIVE UniqueLists(_, _)
UniqueLists(S, n) ==
    IF n = 0 THEN {<<>>}
    ELSE LET shorter == UniqueLists(S, n - 1)
         IN  shorter \cup
             UNION {{ArtDB_add(l, x) : x \in S} : l \in {k \in shorter : Len(k) = n - 1}}

RequestPaths ==
    {SLASH \o IntStr(n) : n \in (0 - MaxPathInt)..MaxPathInt}
    \cup {Str(p) : p \in {"/", "/abc", "/x/2", "/7/", "/+1", "/1_0", "/5?x", "/007"}}

\* self.headers.get('accept'): None, or the header's value
AcceptHeaders ==
    {[given |-> FALSE, value |-> <<>>]}
    \cup {[given |-> TRUE, value |-> Str(a)] :
              a \in {"text/html", "*/*", "text/plain,text/html"}}

HttpInit ==
    /\ ascii_arts \in UniqueLists(ServedRecords, MaxServed)
    /\ b64 = FALSE
    /\ pc = "listening"
    /\ IdleCall /\ IdleHttp /\ IdleTrim /\ IdleParse /\ IdleStore /\ IdleBrowse

\* HTTPServer hands a GET request to the handler
Receive(path, accept) ==
    /\ pc = "listening"
    /\ request' = [path |-> path, accept |-> accept]
    /\ rnd_item' = NoItem
    /\ response' = None
    /\ pc' = "handling"
    /\ UNCHANGED <<dbVars, callVars, trimVars, parseVars, storeVars, browseVars>>

\* do_GET
DoGet ==
    /\ pc = "handling"
    /\ LET choices == RandRange(0, ArtDB_len(ascii_arts) - 1)
       IN  IF choices = {}
           THEN /\ rnd_item' = NoItem
                /\ response' = NoResponse("ValueError")
           ELSE \E rnd \in choices :
                    /\ rnd_item' = DoGetWith(ascii_arts, request, rnd).rnd_item
                    /\ response' = DoGetWith(ascii_arts, request, rnd).response
    /\ pc' = "listening"
    /\ UNCHANGED <<dbVars, callVars, request, trimVars, parseVars, storeVars, browseVars>>

HttpNext ==
    \/ \E path \in RequestPaths, accept \in AcceptHeaders : Receive(path, accept)
    \/ DoGet

SpecHttp == HttpInit /\ [][HttpNext]_vars

IsNumericPath(path) == path # SLASH /\ ParseInt(Basename(path)).ok

\* the body do_GET sends for the record at index: its text, inside the HTML
\* page when the request accepts text/html
BodyOf(db, index, accept) ==
    LET text == AsciiArt_str(db[index + 1]).text
    IN  Utf8Encode(IF WantsHtml(accept) THEN HTML_FORMAT(text, IntStr(index), LINK)
                   ELSE text)

\* C2 as claimed: on every non-empty collection, length 1 included, a
\* request GET /<n> completes with HTTP 200 and the text of the record at
\* index n mod length; no request reaches an error state.
C2_AsClaimed ==
    (pc = "listening" /\ response # None /\ Len(ascii_arts) >= 1
        /\ IsNumericPath(request.path)) =>
        LET n == ParseInt(Basename(request.path)).value
        IN  /\ response.raised = "no"
            /\ response.status = 200
            /\ rnd_item = n % Len(ascii_arts)
            /\ response.body = BodyOf(ascii_arts, n % Len(ascii_arts), request.accept)

\* C3 as claimed: on every non-empty collection a request GET / or one with
\* a non-numeric path segment is answered with a record drawn from the whole
\* collection: the served index is in 0..length-1, and every index of
\* 0..length-1, the last one included, is a possible outcome.
C3_AsClaimed ==
    /\ (pc = "handling" /\ Len(ascii_arts) >= 1 /\ ~IsNumericPath(request.path)) =>
          \A i \in 0..(Len(ascii_arts) - 1) :
              ENABLED (DoGet /\ response'.status = 200 /\ rnd_item' = i)
    /\ (pc = "listening" /\ response # None /\ Len(ascii_arts) >= 1
            /\ ~IsNumericPath(request.path)) =>
          /\ response.status = 200
          /\ rnd_item \in 0..(Len(ascii_arts) - 1)

-----------------------------------------------------------------------------
(* load --trim: trim() applied to a record, and again to the result.       *)

\* the characters of the texts: a letter, a space, a newline, a tab, e-acute
TrimAlphabet == {97, SPACE, NL, 9, 233}

TrimTexts == UNION {[1..n -> TrimAlphabet] : n \in 0..MaxText}

TrimInit ==
    /\ \E text \in TrimTexts : trims = <<AsciiArt_init(Utf8Encode(text))>>
    /\ ascii_arts = <<>>
    /\ b64 = FALSE
    /\ pc = "load"
    /\ IdleCall /\ IdleHttp /\ IdleParse /\ IdleStore /\ IdleBrowse

\* art = art.trim()
Trim ==
    /\ Len(trims) < 3
    /\ trims' = Append(trims, AsciiArt_trim(trims[Len(trims)]))
    /\ UNCHANGED <<dbVars, pc, callVars, httpVars, parseVars, storeVars, browseVars>>

TrimNext == Trim

SpecTrim == TrimInit /\ [][TrimNext]_vars

TextOf(a) == AsciiArt_str(a).text
LinesOf(a) == Split(TextOf(a), NL)

\* Trim(x) is empty, or its lines are a run of the lines of x, unchanged and
\* in order, that starts and ends at a line that is not Blank and has only
\* Blank lines of x before and after it
TrimmedTo(x, t, Blank(_)) ==
    \/ /\ TextOf(t) = <<>>
       /\ \A k \in 1..Len(LinesOf(x)) : Blank(LinesOf(x)[k])
    \/ /\ TextOf(t) # <<>>
       /\ ~Blank(LinesOf(t)[1])
       /\ ~Blank(LinesOf(t)[Len(LinesOf(t))])
       /\ \E i, j \in 1..Len(LinesOf(x)) :
             /\ i <= j
             /\ LinesOf(t) = SubSeq(LinesOf(x), i, j)
             /\ \A k \in 1..Len(LinesOf(x)) : (k < i \/ k > j) => Blank(LinesOf(x)[k])

Idempotent ==
    Len(trims) = 3 => TextOf(trims[3]) = TextOf(trims[2]) /\ trims[3].md5 = trims[2].md5

\* a blank line as the specification words it: whitespace only, or empty
WhitespaceOnly(line) == \A i \in 1..Len(line) : IsSpace(line[i])

\* a line of space characters only, or empty
SpacesOnly(line) == \A i \in 1..Len(line) : line[i] = SPACE

\* C7 as claimed: Trim(Trim(x)) equals Trim(x) in text and identity, and the
\* first and last line of a non-empty Trim(x) are non-blank (blank: only
\* whitespace), the lines between them being those of x, unchanged.
C7_AsClaimed ==
    /\ Idempotent
    /\ Len(trims) >= 2 => TrimmedTo(trims[1], trims[2], WhitespaceOnly)

\* C7: Trim(Trim(x)) equals Trim(x) in text and identity, and the
\* first and last line of a non-empty Trim(x) are neither empty nor made of
\* space characters only (a line holding a tab is kept), the lines between
\* them being those of x, unchanged and in order.
C7_TrimIdempotent ==
    /\ Idempotent
    /\ Len(trims) >= 2 => TrimmedTo(trims[1], trims[2], SpacesOnly)

\* a text with blank lines before, inside and after its content was trimmed
\* twice
C7_Witness ==
    /\ Len(trims) = 3
    /\ TextOf(trims[1]) = <<NL, 97, NL, SPACE>>
    /\ TextOf(trims[2]) = <<97>>

-----------------------------------------------------------------------------
(* load: load_txt_file on a text file, line by line.                       *)

\* the art blocks a file is written from: plain words, a drawing of two
\* lines, words that are valid base64, a blank line, a block with no
\* newline at its end
ArtBlocks ==
    {Str(t) : t \in {"foo\n", "bar\n", " /\\\n/__\\\n", "QUJD\n", "abcd\n", "\n", "baz"}}

SEPARATOR_LINE == ART_SEPERATOR \o <<NL>>

\* the blocks joined with the separator line
JoinedFile(bs) == Join(SEPARATOR_LINE, bs)

\* the lines a free-form file is made of: content, the separator, the
\* separator with other characters around it
FreeLines ==
    {Str("foo\n"), Str("QUJD\n"), SEPARATOR_LINE,
     Str("x") \o ART_SEPERATOR \o Str("y\n")}

ParseInit ==
    /\ \/ /\ blocks \in UNION {[1..n -> ArtBlocks] : n \in 1..MaxBlocks}
          /\ fh_lines = ReadLines(JoinedFile(blocks))
       \/ /\ blocks = <<>>
          /\ \E ls \in UNION {[1..n -> FreeLines] : n \in 0..MaxLines} :
                fh_lines = ReadLines(Concat(ls))
    /\ line_no = 0
    /\ lines = <<>>
    /\ arts = <<>>
    /\ pc = "reading"
    /\ ascii_arts = <<>>
    /\ b64 = FALSE
    /\ IdleCall /\ IdleHttp /\ IdleTrim /\ IdleStore /\ IdleBrowse

\* the body of `for line in fh.readlines()`, once
ReadLine ==
    /\ pc = "reading"
    /\ line_no < Len(fh_lines)
    /\ LET st == LoadLine([lines |-> lines, arts |-> arts, raised |-> FALSE],
                          fh_lines[line_no + 1])
       IN  /\ lines' = st.lines
           /\ arts' = st.arts
           /\ pc' = IF st.raised THEN "raised" ELSE "reading"
    /\ line_no' = line_no + 1
    /\ UNCHANGED <<dbVars, callVars, httpVars, trimVars, storeVars, browseVars,
                   blocks, fh_lines>>

\* the end of the loop: the last payload, and the return
Return ==
    /\ pc = "reading"
    /\ line_no = Len(fh_lines)
    /\ LET st == LoadRest([lines |-> lines, arts |-> arts, raised |-> FALSE])
       IN  /\ lines' = st.lines
           /\ arts' = st.arts
           /\ pc' = IF st.raised THEN "raised" ELSE "returned"
    /\ UNCHANGED <<dbVars, callVars, httpVars, trimVars, storeVars, browseVars,
                   blocks, fh_lines, line_no>>

ParseNext == ReadLine \/ Return

SpecParse == ParseInit /\ [][ParseNext]_vars

\* the file was written from one or more non-empty blocks, none with the
\* separator marker in it, each but the last ending in a newline
WrittenFromBlocks ==
    /\ Len(blocks) >= 1
    /\ \A i \in 1..Len(blocks) :
          /\ blocks[i] # <<>>
          /\ ~Contains(blocks[i], ART_SEPERATOR)
          /\ i < Len(blocks) => blocks[i][Len(blocks[i])] = NL

\* the block, its newlines removed, is valid base64
LooksLikeBase64(block) == B64Decode(Utf8Encode(WithoutNewlines(block))).ok

PayloadsAreBlocks ==
    /\ pc = "returned"
    /\ arts = [i \in 1..Len(blocks) |-> Utf8Encode(blocks[i])]

\* the block has a character that is not whitespace
HasInk(block) == \E k \in 1..Len(block) : ~IsSpace(block[k])

\* C5 as claimed: for every N >= 1 and every N non-empty plain-text blocks
\* (each with something drawn in it) written to a file joined by the
\* separator line, ParseFile returns exactly N payloads, in order, each
\* equal to its block.
C5_AsClaimed ==
    (/\ WrittenFromBlocks
     /\ \A i \in 1..Len(blocks) : HasInk(blocks[i])
     /\ pc \in {"returned", "raised"}) => PayloadsAreBlocks

\* C5: the same as claimed, for blocks none of which is valid base64 once its
\* newlines are removed.
C5_SeparatorRoundTrip ==
    (/\ WrittenFromBlocks
     /\ \A i \in 1..Len(blocks) : ~LooksLikeBase64(blocks[i])
     /\ pc \in {"returned", "raised"}) => PayloadsAreBlocks

\* three blocks, one of two lines and the last without a newline at its
\* end, came back as three payloads
C5_Witness ==
    /\ pc = "returned"
    /\ blocks = <<Str("foo\n"), Str(" /\\\n/__\\\n"), Str("baz")>>
    /\ arts = <<Utf8Encode(Str("foo\n")), Utf8Encode(Str(" /\\\n/__\\\n")),
                Utf8Encode(Str("baz"))>>

\* a turn of the loop on the line fh_lines[line_no + 1]
LineTaken == pc = "reading" /\ line_no' = line_no + 1

-----------------------------------------------------------------------------
(* Writing the database and opening it again: write_db on a collection,    *)
(* then ArtDB().open on the file written.                                  *)

MaxStored == 2

\* a record from a hand-edited database file: every kind of character that
\* json.dumps escapes, in data and in md5
ArtOdd == AsciiArt_from_dict(Utf8Encode(<<97, 34, 92, 10, 233>>), <<233, 8364, 47, 1>>)

StoredRecords == {ArtAAA, ArtBBB, ArtBBB_other, ArtOdd}

\* ArtDB.open checks nothing: a collection read from a file may hold an
\* identity twice
StoredDbs == UNION {[1..n -> StoredRecords] : n \in 0..MaxStored}

StoreInit ==
    /\ ascii_arts \in StoredDbs
    /\ b64 \in BOOLEAN
    /\ pc = "db"
    /\ IdleCall /\ IdleHttp /\ IdleTrim /\ IdleParse /\ IdleStore /\ IdleBrowse

\* db.write_db(dbfile, b64=b64_arg, text_wrap=text_wrap)
WriteDb(b64_arg, text_wrap) ==
    /\ pc = "db"
    /\ dbfile' = ArtDB_write_db(ascii_arts, b64, b64_arg, text_wrap)
    /\ written' = [db |-> ascii_arts, b64 |-> b64_arg, text_wrap |-> text_wrap]
    /\ pc' = "written"
    /\ UNCHANGED <<dbVars, callVars, httpVars, trimVars, parseVars, browseVars>>

\* db = ArtDB(); db.open(args) on the file written
Open ==
    /\ pc = "written"
    /\ LET opened == ArtDB_open(dbfile)
       IN  IF opened.ok
           THEN /\ ascii_arts' = opened.db
                /\ b64' = opened.b64
                /\ pc' = "opened"
           ELSE /\ ascii_arts' = <<>>
                /\ b64' = FALSE
                /\ pc' = "raised"
    /\ UNCHANGED <<storeVars, callVars, httpVars, trimVars, parseVars, browseVars>>

StoreNext ==
    \/ \E b64_arg \in BOOLEAN, text_wrap \in BOOLEAN : WriteDb(b64_arg, text_wrap)
    \/ Open

SpecStore == StoreInit /\ [][StoreNext]_vars

\* C8: for every collection (the empty one included) and either wrap
\* setting, write_db with b64=True followed by open on a fresh collection
\* yields the same records, content and identity, in the same order, and
\* sets the storage mode to base64.
C8_Base64RoundTrip ==
    (pc \in {"opened", "raised"} /\ written.b64) =>
        /\ pc = "opened"
        /\ ascii_arts = written.db
        /\ b64

\* a collection of two records, one of them with characters json.dumps
\* escapes, was written wrapped with b64=True on several lines, and opened
C8_Witness ==
    /\ pc = "opened"
    /\ written.b64 /\ written.text_wrap
    /\ Len(written.db) = 2
    /\ ArtOdd \in {written.db[k] : k \in 1..Len(written.db)}
    /\ Len(ReadLines(dbfile)) > 4
    /\ ascii_arts = written.db

\* without b64=True and with storage mode plain the file is the JSON text,
\* and open reads the same records back and leaves the storage mode plain
PlainRoundTrip ==
    (pc \in {"opened", "raised"} /\ ~written.b64 /\ dbfile = JsonDumps(written.db)) =>
        /\ pc = "opened"
        /\ ascii_arts = written.db
        /\ ~b64


-----------------------------------------------------------------------------
(* The browser on a collection that ArtDB.open has read.                   *)

MaxBrowse == 2

ArtOne == AsciiArt_init(Utf8Encode(Str("AAA\n")))
ArtTwo == AsciiArt_init(Utf8Encode(Str("BBB\n")))
ArtTent == AsciiArt_init(Utf8Encode(Str(" /\\\n/__\\\n")))
\* a record of a hand-edited file: other content under ArtOne's identity
ArtOne_other == AsciiArt_from_dict(B64Encode(Utf8Encode(Str("DDD\n"))), ArtOne.md5)

BrowseRecords == {ArtOne, ArtTwo, ArtTent, ArtOne_other}

BrowseDbs == UNION {[1..n -> BrowseRecords] : n \in 0..MaxBrowse}

\* what the user types at the prompts
Inputs == {Str(t) : t \in {"n", "", "Next", "P", "d", "e", "q", "exit", "x"}}
SaveInputs == {Str(t) : t \in {"y", "Yes", "n", "x"}}

\* what the edited file holds when vi returns
EditTexts ==
    {Str("AAA\n"), Str("BBB\n"), Str("new\n"), Str("QUJD\n"), Str("abcd\n"),
     Str("x\n") \o SEPARATOR_LINE \o Str("y\n")}

\* load_txt_file on each of them
EditLoaded == [text \in EditTexts |-> load_txt_file(text)]

BrowseInit ==
    /\ ascii_arts \in BrowseDbs
    /\ b64 \in BOOLEAN
    /\ pc = "browser"
    /\ IdleCall /\ IdleHttp /\ IdleTrim /\ IdleParse /\ IdleStore /\ IdleBrowse

\* c = 1, the first test of the while loop and the first record printed
Start ==
    /\ pc = "browser"
    /\ c' = 1
    /\ pc' = WhileTest(ascii_arts, 1)
    /\ UNCHANGED <<go, edited, dbVars, callVars, httpVars, trimVars, parseVars, storeVars>>

\* the rest of a turn of the loop after the command g left the collection
\* db and the counter cc: the counter is brought back in range, the loop
\* tested and the next record printed
Turn(db, cc, g, text) ==
    LET n == Normalise(cc, ArtDB_len(db))
    IN  /\ ascii_arts' = db
        /\ c' = n.c
        /\ go' = g
        /\ edited' = text
        /\ pc' = IF n.brk THEN "done" ELSE WhileTest(db, n.c)
        /\ UNCHANGED <<b64, callVars, httpVars, trimVars, parseVars, storeVars>>

CmdNext(g) ==
    /\ pc = "prompt"
    /\ Lower(g) \in GO_NEXT
    /\ Turn(ascii_arts, c + 1, g, <<>>)

CmdPrevious(g) ==
    /\ pc = "prompt"
    /\ Lower(g) \in GO_PREVIOUS
    /\ Turn(ascii_arts, c - 1, g, <<>>)

CmdDelete(g) ==
    /\ pc = "prompt"
    /\ Lower(g) \in GO_DELETE
    /\ Turn(ArtDB_remove(ascii_arts, ArtDB_get(ascii_arts, c - 1).art).db, c, g, <<>>)

\* the edit command, the file holding text when the editor returns; where
\* load_txt_file raises nothing has been removed yet
CmdEdit(g, text) ==
    /\ pc = "prompt"
    /\ Lower(g) \in GO_EDIT
    /\ LET loaded == EditLoaded[text]
       IN  IF loaded.ok
           THEN /\ Len(EditedDb(ascii_arts, c, loaded.arts)) <= MaxBrowse
                /\ Turn(EditedDb(ascii_arts, c, loaded.arts), c, g, text)
           ELSE /\ go' = g
                /\ edited' = text
                /\ pc' = "raised"
                /\ UNCHANGED <<c, dbVars, callVars, httpVars, trimVars, parseVars,
                               storeVars>>

CmdQuit(g) ==
    /\ pc = "prompt"
    /\ Lower(g) \in GO_QUIT
    /\ Turn(ascii_arts, 0 - 1, g, <<>>)

\* any other input: `continue`, the prompt is shown again
CmdWrong(g) ==
    /\ pc = "prompt"
    /\ Lower(g) \notin GO_NEXT \cup GO_PREVIOUS \cup GO_DELETE \cup GO_EDIT \cup GO_QUIT
    /\ go' = g
    /\ edited' = <<>>
    /\ UNCHANGED <<c, pc, dbVars, callVars, httpVars, trimVars, parseVars, storeVars>>

\* 'Save updates to DB [y/n]: '
Save(g) ==
    /\ pc = "done"
    /\ go' = g
    /\ IF Lower(g) \in SAVE_YES
       THEN /\ dbfile' = ArtDB_write_db(ascii_arts, b64, FALSE, TRUE)
            /\ written' = [db |-> ascii_arts, b64 |-> FALSE, text_wrap |-> TRUE]
            /\ pc' = "saved"
       ELSE /\ pc' = IF Lower(g) \in SAVE_NO THEN "kept" ELSE "done"
            /\ UNCHANGED storeVars
    /\ UNCHANGED <<c, edited, dbVars, callVars, httpVars, trimVars, parseVars>>

BrowseNext ==
    \/ Start
    \/ \E g \in Inputs : CmdNext(g)
    \/ \E g \in Inputs : CmdPrevious(g)
    \/ \E g \in Inputs : CmdDelete(g)
    \/ \E g \in Inputs, text \in EditTexts : CmdEdit(g, text)
    \/ \E g \in Inputs : CmdQuit(g)
    \/ \E g \in Inputs : CmdWrong(g)
    \/ \E g \in SaveInputs : Save(g)

SpecBrowse == BrowseInit /\ [][BrowseNext]_vars

\* the text is one non-empty block: something is drawn in it and no line
\* of it holds the separator
OneBlock(text) ==
    /\ HasInk(text)
    /\ \A k \in 1..Len(ReadLines(text)) : ~SeparatorIn(ReadLines(text)[k])

\* the texts the editor can leave that are one block of plain text
OneBlockTexts == {text \in EditTexts : OneBlock(text)}
PlainBlockTexts == {text \in OneBlockTexts : ~LooksLikeBase64(text)}

\* db without its record at position i (from 1)
Without(db, i) == SubSeq(db, 1, i - 1) \o SubSeq(db, i + 1, Len(db))

\* db holds new at position i and is old everywhere else
ReplacedAt(db, old, i, new) ==
    /\ Len(db) = Len(old)
    /\ db[i] = new
    /\ Without(db, i) = Without(old, i)

NoIdentityTwice(db) ==
    \A i, j \in 1..Len(db) : i # j => ~AsciiArt_eq(db[i], db[j])

C10_CursorInRange ==
    /\ [](pc = "prompt" => (1 <= c /\ c <= ArtDB_len(ascii_arts)))
    /\ [][/\ (pc = "prompt" /\ Lower(go') \in GO_NEXT /\ c = ArtDB_len(ascii_arts))
             => (c' = 1 /\ pc' = "prompt")
          /\ (pc = "prompt" /\ Lower(go') \in GO_PREVIOUS /\ c = 1)
             => (c' = ArtDB_len(ascii_arts) /\ pc' = "prompt")
          /\ (pc = "prompt" /\ pc' = "done")
             => (ArtDB_len(ascii_arts') = 0 \/ Lower(go') \in GO_QUIT)
          /\ (pc = "prompt" /\ (ArtDB_len(ascii_arts') = 0 \/ Lower(go') \in GO_QUIT))
             => pc' = "done"]_vars

\* previous at the first of two records has wrapped to the last
C10_Witness ==
    /\ pc = "prompt"
    /\ Lower(go) \in GO_PREVIOUS
    /\ ArtDB_len(ascii_arts) = 2
    /\ c = 2

=============================================================================
